---- MODULE Spec2Model ----
(***************************************************************************)
(* Model of invoice_bot: main() (the upload orchestrator), process_row()   *)
(* (the admission gate) and PortalUploader (session manager, row           *)
(* submitter, retry policy).                                               *)
(*                                                                         *)
(* Scheduling is asyncio's: one thread, tasks interleave only at awaits    *)
(* that suspend.  An action is therefore the code that runs between two    *)
(* suspension points: a driver call completing (with a result or an        *)
(* exception) together with everything the coroutine does until it         *)
(* suspends again or ends.                                                 *)
(***************************************************************************)
EXTENDS Integers, Sequences, FiniteSets, TLC

\* ------------------------------------------------------------------ bounds
NumRows == 2
MaxConc == 2

\* ------------------------------------------------------- program constants
MAX_RETRIES == 3
BASE_MS == 1000

Rows == 1..NumRows

VARIABLES
    n,               \* number of rows of the input table (len(df))
    concurrency,     \* main's concurrency argument
    sem,             \* value of the asyncio.Semaphore
    mainPc,          \* position of main()
    mainExc,         \* exception propagating out of main's async-with body
    results,         \* what asyncio.gather returned
    exitCode,        \* main's return value (-1: none)
    playwright,      \* self.playwright: "none" | "started" | "stopped"
    browser,         \* self.browser:    "none" | "open" | "closed"
    context,         \* self.context:    "none" | "open" | "closed"
    authFile,        \* auth.json exists
    pc,              \* per row: position of its process_row task
    page,            \* per row: the page upload_row opened
    \* The next five belong to the row's running coroutine and are dropped
    \* (back to their initial values) when its task ends.
    retries,         \* per row: _retry_with_backoff's retries
    last_exception,  \* per row: _retry_with_backoff's last_exception
    attempts,        \* per row: number of calls of func() (do_upload)
    delays,          \* per row: the wait_time of every backoff sleep, in ms
    exhausted,       \* per row: "Max retries exceeded" was reached
    result,          \* per row: the dict upload_row returns (pending in finally)
    exc,             \* per row: the exception in flight in / raised by the task
    clicks,          \* per row: clicks of the submit button completed by the task so far
    service_id,      \* per row: the row's service_id
    portal,          \* the service ids in the portal's existing-records view
    input,           \* what main finds at csv_path
    outputWritten,   \* run-<timestamp>.csv was written
    secretsRead      \* this run read PORTAL_USERNAME / PORTAL_PASSWORD

mainVars == <<mainPc, mainExc, results, exitCode>>
sessVars == <<playwright, browser, context, authFile>>
rowVars  == <<pc, page, retries, last_exception, attempts, delays, exhausted, result, exc, clicks>>
inVars == <<n, concurrency, service_id, input>>
vars == <<inVars, sem, mainVars, sessVars, rowVars, portal, outputWritten, secretsRead>>

\* ------------------------------------------------------------- exceptions
\* An exception is its type name and the markers str(e) contains.
Exc(t, m) == [type |-> t, msg |-> m]
NoExc == Exc("None", {})
TimeoutExc == Exc("TimeoutError", {})
Http429Exc == Exc("Error", {"429"})
RateLimitExc == Exc("Error", {"Rate Limit"})
OtherExc == Exc("Error", {})
NameErrorExc == Exc("NameError", {})
ValueErrorExc == Exc("ValueError", {})
CancelledExc == Exc("CancelledError", {})

\* What a call of the browser driver can raise.
DriverErrors == {TimeoutExc, Http429Exc, RateLimitExc, OtherExc}

\* A driver call on a closed context fails; on an open one it may do anything.
DriverRaises(ctx) == IF ctx = "open" THEN DriverErrors ELSE {OtherExc}
DriverCanSucceed(ctx) == ctx = "open"

\* ---------------------------------------------------------------- results
ErrorMsg(e) == [kind |-> e.type, message |-> e.msg]
NoMsg == [kind |-> "None", message |-> {}]
NoResult == [status |-> "None", portal_id |-> "None", error_msg |-> NoMsg]
RowOutcome(s, p, m) == [status |-> s, portal_id |-> p, error_msg |-> m]

\* The names bound in portal_uploader's module namespace by its imports.
ModuleGlobals ==
    {"asyncio", "os", "time", "Path", "Dict", "Any", "Optional", "logger",
     "async_playwright", "Browser", "BrowserContext", "Page", "TimeoutError"}

\* Evaluating a global name: NameError unless the module binds it.
NameResolves(name) == name \in ModuleGlobals

\* ----------------------------------------------------------- retry policy
RECURSIVE Pow2(_)
Pow2(k) == IF k = 0 THEN 1 ELSE 2 * Pow2(k - 1)

\* line 130: isinstance(e, TimeoutError) or "429" in str(e) or "Rate Limit" in str(e)
IsRetryable(e) == e.type = "TimeoutError" \/ "429" \in e.msg \/ "Rate Limit" \in e.msg

\* Mutant of WaitTime: the exponent counts from 0 (base, 2*base, 4*base).
WaitTimeFromBase(r) == Pow2(r - 1) * BASE_MS

\* line 134: wait_time = (2 ** retries) * 1000
WaitTime(r) == Pow2(r) * BASE_MS

\* Mutant of MayRetry: gives up one retry early.
MayRetryStrict(r) == r < MAX_RETRIES

\* line 132: if retries <= max_retries (sleep and loop) else raise
MayRetry(r) == r <= MAX_RETRIES

\* ------------------------------------------------------------ admission gate
\* line 81: asyncio.Semaphore(concurrency)
SemaphoreInit(c) == c

\* Mutant of CanAcquire: the gate admits whatever the value.
CanAcquireAlways(v) == TRUE

\* asyncio.Semaphore.acquire proceeds without waiting iff the value is positive
CanAcquire(v) == v > 0

\* ------------------------------------------------ one row's coroutine state
RowState(i) ==
    [pc |-> pc[i], retries |-> retries[i], last_exception |-> last_exception[i],
     attempts |-> attempts[i], delays |-> delays[i], exhausted |-> exhausted[i],
     result |-> result[i], exc |-> exc[i]]

\* The task ends: the frames of upload_row and _retry_with_backoff are gone;
\* what is left is the task's result or exception.
Ended(s) ==
    [s EXCEPT !.pc = "done", !.retries = 0, !.last_exception = NoExc,
              !.attempts = 0, !.delays = <<>>, !.exhausted = FALSE]

SetRow(i, s) ==
    /\ pc' = [pc EXCEPT ![i] = s.pc]
    /\ retries' = [retries EXCEPT ![i] = s.retries]
    /\ last_exception' = [last_exception EXCEPT ![i] = s.last_exception]
    /\ attempts' = [attempts EXCEPT ![i] = s.attempts]
    /\ delays' = [delays EXCEPT ![i] = s.delays]
    /\ exhausted' = [exhausted EXCEPT ![i] = s.exhausted]
    /\ result' = [result EXCEPT ![i] = s.result]
    /\ exc' = [exc EXCEPT ![i] = s.exc]

\* upload_row, lines 228-241: except Exception builds the ERROR dict, whose
\* "processed_ts" evaluates datetime.now(); then finally awaits page.close().
UploadExcept(s, e) ==
    IF NameResolves("datetime")
    THEN [s EXCEPT !.pc = "close",
                   !.result = RowOutcome("ERROR", "None", ErrorMsg(e)),
                   !.exc = NoExc]
    ELSE [s EXCEPT !.pc = "close", !.result = NoResult, !.exc = NameErrorExc]

\* upload_row, lines 219-226 and 240-241: the result of _retry_with_backoff is
\* returned through finally.
UploadReturn(s, r) == [s EXCEPT !.pc = "close", !.result = r, !.exc = NoExc]

\* Mutant of RetryExcept: the retry counter is never incremented.
RetryExceptNoCount(s, e) ==
    LET s1 == [s EXCEPT !.last_exception = e] IN
    IF IsRetryable(e)
    THEN [s1 EXCEPT !.delays = Append(@, WaitTime(s.retries + 1)), !.pc = "backoff"]
    ELSE UploadExcept(s1, e)

\* _retry_with_backoff, lines 126-142: the except clause around func().
RetryExcept(s, e) ==
    LET s1 == [s EXCEPT !.last_exception = e] IN
    IF IsRetryable(e)
    THEN LET r == s.retries + 1
             s2 == [s1 EXCEPT !.retries = r] IN
         IF MayRetry(r)
         THEN [s2 EXCEPT !.delays = Append(@, WaitTime(r)), !.pc = "backoff"]
         ELSE UploadExcept([s2 EXCEPT !.exhausted = TRUE], e)
    ELSE UploadExcept(s1, e)

\* do_upload, lines 177-182 and 211-216: the returned dict evaluates
\* datetime.now(); a NameError there is raised into _retry_with_backoff.
DoUploadReturn(s, status, portal_id) ==
    IF NameResolves("datetime")
    THEN UploadReturn(s, RowOutcome(status, portal_id, NoMsg))
    ELSE RetryExcept(s, NameErrorExc)

\* A CancelledError thrown into the task at its suspension point.  It is no
\* Exception, so neither except clause catches it; inside upload_row's try
\* the finally clause still awaits page.close().
Cancelled(s) ==
    IF s.pc \in {"idle", "done"} THEN s
    ELSE IF s.pc \in {"pending", "new_page", "close"}
         THEN Ended([s EXCEPT !.result = NoResult, !.exc = CancelledExc])
         ELSE [s EXCEPT !.pc = "close", !.result = NoResult, !.exc = CancelledExc]

\* Positions at which a row holds a slot of the semaphore.
InProgressPcs ==
    {"new_page", "goto", "count", "fill", "click", "wait_success", "inner_text",
     "backoff", "close"}
InProgress(i) == pc[i] \in InProgressPcs

\* The event loop runs the row tasks whenever main is suspended in an await.
TasksRun == mainPc \in {"gather", "exit_context", "exit_browser", "exit_driver", "shutdown"}

\* ------------------------------------------------------------- row tasks
rowFrame == UNCHANGED <<inVars, mainVars, sessVars, outputWritten, secretsRead>>

\* A driver call awaited inside do_upload completes: it returns, and the
\* coroutine goes on to `next`, or it raises into _retry_with_backoff.
DriverStep(i, at, next) ==
    /\ TasksRun
    /\ pc[i] = at
    /\ \/ /\ DriverCanSucceed(context)
          /\ SetRow(i, [RowState(i) EXCEPT !.pc = next])
       \/ \E e \in DriverRaises(context) : SetRow(i, RetryExcept(RowState(i), e))
    /\ UNCHANGED <<page, sem, clicks, portal>>
    /\ rowFrame

\* process_row, line 37: async with semaphore (acquire).
Admit(i) ==
    /\ TasksRun
    /\ pc[i] = "pending"
    /\ CanAcquire(sem)
    /\ sem' = sem - 1
    /\ pc' = [pc EXCEPT ![i] = "new_page"]
    /\ UNCHANGED <<page, retries, last_exception, attempts, delays, exhausted, result, exc>>
    /\ UNCHANGED <<clicks, portal>>
    /\ rowFrame

\* upload_row, line 155: page = await self.context.new_page(), outside the
\* try; then lines 156-162 and 116-124 up to the first await of do_upload.
NewPage(i) ==
    /\ TasksRun
    /\ pc[i] = "new_page"
    /\ \/ /\ DriverCanSucceed(context)
          /\ page' = [page EXCEPT ![i] = "open"]
          /\ SetRow(i, [RowState(i) EXCEPT !.pc = "goto", !.attempts = 1])
          /\ sem' = sem
       \/ \E e \in DriverRaises(context) :
            /\ SetRow(i, Ended([RowState(i) EXCEPT !.exc = e]))
            /\ sem' = sem + 1
            /\ page' = page
    /\ UNCHANGED <<clicks, portal>>
    /\ rowFrame

\* do_upload, line 162: await page.goto(...)
Goto(i) == DriverStep(i, "goto", "count")

\* do_upload, lines 165-182: the duplicate check.  A positive count takes the
\* SKIP branch: the existing id is read best-effort ("unknown" on failure)
\* and the SKIP dict is returned.
CountDuplicates(i) ==
    /\ TasksRun
    /\ pc[i] = "count"
    /\ \/ /\ DriverCanSucceed(context)
          /\ IF service_id[i] \in portal
             THEN \E id \in {"existing", "unknown"} :
                    SetRow(i, DoUploadReturn(RowState(i), "SKIP", id))
             ELSE SetRow(i, [RowState(i) EXCEPT !.pc = "fill"])
       \/ \E e \in DriverRaises(context) : SetRow(i, RetryExcept(RowState(i), e))
    /\ UNCHANGED <<page, sem, clicks, portal>>
    /\ rowFrame

\* do_upload, lines 188-200: fill service_id and price, attach the invoice
\* file, fill the optional fields.  float(row["price"]) may raise ValueError.
Fill(i) ==
    /\ TasksRun
    /\ pc[i] = "fill"
    /\ \/ /\ DriverCanSucceed(context)
          /\ SetRow(i, [RowState(i) EXCEPT !.pc = "click"])
       \/ \E e \in DriverRaises(context) \cup {ValueErrorExc} :
            SetRow(i, RetryExcept(RowState(i), e))
    /\ UNCHANGED <<page, sem, clicks, portal>>
    /\ rowFrame

\* do_upload, line 203: await page.click(submit).  A completed click submits
\* the form; the portal records the service id, or does not (it may reject
\* or throttle the submission).
Click(i) ==
    /\ TasksRun
    /\ pc[i] = "click"
    /\ \/ /\ DriverCanSucceed(context)
          /\ SetRow(i, [RowState(i) EXCEPT !.pc = "wait_success"])
          /\ clicks' = [clicks EXCEPT ![i] = @ + 1]
          /\ portal' \in {portal, portal \cup {service_id[i]}}
       \/ /\ \E e \in DriverRaises(context) : SetRow(i, RetryExcept(RowState(i), e))
          /\ UNCHANGED <<clicks, portal>>
    /\ UNCHANGED <<page, sem>>
    /\ rowFrame

\* do_upload, line 206: await page.wait_for_selector(success, timeout=5000)
WaitSuccess(i) == DriverStep(i, "wait_success", "inner_text")

\* do_upload, lines 209-216: read the portal id and return the OK dict.
InnerText(i) ==
    /\ TasksRun
    /\ pc[i] = "inner_text"
    /\ \/ /\ DriverCanSucceed(context)
          /\ SetRow(i, DoUploadReturn(RowState(i), "OK", "new"))
       \/ \E e \in DriverRaises(context) : SetRow(i, RetryExcept(RowState(i), e))
    /\ UNCHANGED <<page, sem, clicks, portal>>
    /\ rowFrame

\* Mutant of RetryEntry: a retry resumes at the fill step.
RetryEntryAtFill == "fill"

\* _retry_with_backoff, line 121: func() is do_upload as a whole, whose first
\* await is page.goto (line 162).
RetryEntry == "goto"

\* _retry_with_backoff, lines 136 and 119-124: the sleep ends, the loop
\* condition holds and func() is called again.
Backoff(i) ==
    /\ TasksRun
    /\ pc[i] = "backoff"
    /\ SetRow(i, [RowState(i) EXCEPT !.pc = RetryEntry, !.attempts = @ + 1])
    /\ UNCHANGED <<page, sem, clicks, portal>>
    /\ rowFrame

\* upload_row, lines 240-241: await page.close() in finally; then the
\* pending return or exception leaves upload_row and process_row, whose
\* async with releases the semaphore.  page.close() raising replaces both.
ClosePage(i) ==
    /\ TasksRun
    /\ pc[i] = "close"
    /\ \/ /\ page' = [page EXCEPT ![i] = "closed"]
          /\ SetRow(i, Ended(RowState(i)))
       \/ \E e \in DriverRaises(context) :
            /\ page' = page
            /\ SetRow(i, Ended([RowState(i) EXCEPT !.result = NoResult, !.exc = e]))
    /\ sem' = sem + 1
    /\ clicks' = [clicks EXCEPT ![i] = 0]
    /\ portal' = portal
    /\ rowFrame

RowStep(i) ==
    \/ Admit(i) \/ NewPage(i) \/ Goto(i) \/ CountDuplicates(i) \/ Fill(i)
    \/ Click(i) \/ WaitSuccess(i) \/ InnerText(i) \/ Backoff(i) \/ ClosePage(i)

\* ------------------------------------------------------------------ main
mainFrame == UNCHANGED <<inVars, sem, rowVars, portal>>

\* How main leaves the async-with block once __aexit__ is through or has
\* raised: with an exception pending the run ends in asyncio.run's cleanup.
Raise(e) == mainExc' = e /\ mainPc' = "raised"

\* main, lines 60-81: the startup checks (exit code 1 when the file is
\* missing, unreadable or lacks a required column), then
\* asyncio.Semaphore(concurrency), which raises ValueError on a negative value.
Startup ==
    /\ mainPc = "init"
    /\ IF input # "ok"
       THEN exitCode' = 1 /\ mainPc' = "rejected" /\ UNCHANGED <<mainExc, sem>>
       ELSE IF concurrency < 0
            THEN Raise(ValueErrorExc) /\ UNCHANGED <<exitCode, sem>>
            ELSE /\ sem' = SemaphoreInit(concurrency)
                 /\ mainPc' = "start"
                 /\ UNCHANGED <<exitCode, mainExc>>
    /\ UNCHANGED <<results, sessVars, inVars, rowVars, portal, outputWritten, secretsRead>>

\* __aenter__, line 51: async_playwright().start()
StartDriver ==
    /\ mainPc = "start"
    /\ \/ playwright' = "started" /\ mainPc' = "launch" /\ mainExc' = mainExc
       \/ playwright' = playwright /\ Raise(OtherExc)
    /\ UNCHANGED <<results, exitCode, browser, context, authFile>>
    /\ UNCHANGED <<outputWritten, secretsRead>>
    /\ mainFrame

\* __aenter__, line 52: chromium.launch()
LaunchBrowser ==
    /\ mainPc = "launch"
    /\ \/ browser' = "open" /\ mainPc' = "new_context" /\ mainExc' = mainExc
       \/ browser' = browser /\ Raise(OtherExc)
    /\ UNCHANGED <<results, exitCode, playwright, context, authFile>>
    /\ UNCHANGED <<outputWritten, secretsRead>>
    /\ mainFrame

\* Mutant of NeedsLogin: the login workflow runs on every acquisition.
NeedsLoginAlways(file) == TRUE

\* __aenter__, line 55: if self._auth_file.exists() ... else: ... _login()
NeedsLogin(file) == ~file

\* __aenter__, lines 55-60: new_context, from auth.json when it exists.
NewContext ==
    /\ mainPc = "new_context"
    /\ \/ /\ context' = "open"
          /\ mainPc' = IF NeedsLogin(authFile) THEN "login" ELSE "dispatch"
          /\ mainExc' = mainExc
       \/ context' = context /\ Raise(OtherExc)
    /\ UNCHANGED <<results, exitCode, playwright, browser, authFile>>
    /\ UNCHANGED <<outputWritten, secretsRead>>
    /\ mainFrame

\* _login, lines 74-101: the secrets are read from the environment, and
\* ValueError is raised without them; otherwise the login page is driven,
\* and auth.json is written once the dashboard was seen.  An exception
\* leaves __aenter__, so __aexit__ is not called.
Login ==
    /\ mainPc = "login"
    /\ secretsRead' = TRUE
    /\ \E secrets \in BOOLEAN :
        IF ~secrets
        THEN Raise(ValueErrorExc) /\ authFile' = authFile
        ELSE \/ authFile' = TRUE /\ mainPc' = "dispatch" /\ mainExc' = mainExc
             \/ \E e \in {TimeoutExc, OtherExc} : Raise(e) /\ authFile' = authFile
    /\ UNCHANGED <<results, exitCode, playwright, browser, context>>
    /\ UNCHANGED outputWritten
    /\ mainFrame

\* main, lines 87-93: one process_row coroutine per row, handed to gather.
Dispatch ==
    /\ mainPc = "dispatch"
    /\ mainPc' = "gather"
    /\ pc' = [i \in Rows |-> IF i <= n THEN "pending" ELSE "idle"]
    /\ UNCHANGED <<mainExc, results, exitCode, sessVars, inVars, sem>>
    /\ UNCHANGED <<page, retries, last_exception, attempts, delays, exhausted, result, exc>>
    /\ UNCHANGED <<clicks, portal, outputWritten, secretsRead>>

\* asyncio.gather(*tasks), line 93: every task returned; the results come in
\* the order of the tasks.  __aexit__ then calls context.close().
GatherReturn ==
    /\ mainPc = "gather"
    /\ \A i \in 1..n : pc[i] = "done" /\ exc[i] = NoExc
    /\ results' = [i \in 1..n |-> result[i]]
    /\ mainPc' = "exit_context"
    /\ UNCHANGED <<mainExc, exitCode, sessVars>>
    /\ UNCHANGED <<outputWritten, secretsRead>>
    /\ mainFrame

\* asyncio.gather without return_exceptions: a task's exception is raised
\* in main at once; the other tasks are left running.  __aexit__ follows.
GatherRaise(i) ==
    /\ mainPc = "gather"
    /\ i <= n /\ pc[i] = "done" /\ exc[i] # NoExc
    /\ mainExc' = exc[i]
    /\ mainPc' = "exit_context"
    /\ UNCHANGED <<results, exitCode, sessVars>>
    /\ UNCHANGED <<outputWritten, secretsRead>>
    /\ mainFrame

\* __aexit__, lines 67-68: await self.context.close().  Closing a context
\* closes the pages that belong to it.
ExitContext ==
    /\ mainPc = "exit_context"
    /\ \/ /\ context' = "closed" /\ mainPc' = "exit_browser" /\ mainExc' = mainExc
          /\ page' = [i \in Rows |-> IF page[i] = "open" THEN "closed" ELSE page[i]]
       \/ context' = context /\ Raise(OtherExc) /\ page' = page
    /\ UNCHANGED <<results, exitCode, playwright, browser, authFile>>
    /\ UNCHANGED <<outputWritten, secretsRead>>
    /\ UNCHANGED <<inVars, sem, portal>>
    /\ UNCHANGED <<pc, retries, last_exception, attempts, delays, exhausted, result, exc, clicks>>

\* __aexit__, lines 69-70: await self.browser.close()
ExitBrowser ==
    /\ mainPc = "exit_browser"
    /\ \/ browser' = "closed" /\ mainPc' = "exit_driver" /\ mainExc' = mainExc
       \/ browser' = browser /\ Raise(OtherExc)
    /\ UNCHANGED <<results, exitCode, playwright, context, authFile>>
    /\ UNCHANGED <<outputWritten, secretsRead>>
    /\ mainFrame

\* __aexit__, lines 71-72: await self.playwright.stop(); __aexit__ returns
\* None, so a pending exception is raised again.
ExitDriver ==
    /\ mainPc = "exit_driver"
    /\ \/ /\ playwright' = "stopped"
          /\ mainPc' = IF mainExc = NoExc THEN "report" ELSE "raised"
          /\ mainExc' = mainExc
       \/ playwright' = playwright /\ Raise(OtherExc)
    /\ UNCHANGED <<results, exitCode, browser, context, authFile>>
    /\ UNCHANGED <<outputWritten, secretsRead>>
    /\ mainFrame

\* main, lines 95-138: count the statuses, write the table, exit code.
Report ==
    /\ mainPc = "report"
    /\ exitCode' = IF \E k \in 1..Len(results) : results[k].status = "ERROR" THEN 2 ELSE 0
    /\ outputWritten' = TRUE
    /\ mainPc' = "done"
    /\ UNCHANGED <<mainExc, results, sessVars, secretsRead>>
    /\ mainFrame

\* asyncio.run, line 153: main raised; the tasks still pending are cancelled
\* and the loop runs until they have ended.
CancelAll ==
    /\ mainPc = "raised"
    /\ mainPc' = "shutdown"
    /\ LET after == [i \in Rows |-> Cancelled(RowState(i))] IN
        /\ pc' = [i \in Rows |-> after[i].pc]
        /\ result' = [i \in Rows |-> after[i].result]
        /\ exc' = [i \in Rows |-> after[i].exc]
        /\ retries' = [i \in Rows |-> after[i].retries]
        /\ last_exception' = [i \in Rows |-> after[i].last_exception]
        /\ attempts' = [i \in Rows |-> after[i].attempts]
        /\ delays' = [i \in Rows |-> after[i].delays]
        /\ exhausted' = [i \in Rows |-> after[i].exhausted]
        /\ clicks' = [i \in Rows |-> IF after[i].pc = "done" THEN 0 ELSE clicks[i]]
    /\ sem' = sem + Cardinality({i \in Rows : pc[i] \in {"new_page", "close"}})
    /\ UNCHANGED <<mainExc, results, exitCode, sessVars, inVars>>
    /\ UNCHANGED <<page, portal, outputWritten, secretsRead>>

\* asyncio.run: every task has ended; the exception leaves the program.
Finish ==
    /\ mainPc = "shutdown"
    /\ \A i \in Rows : pc[i] \in {"idle", "done"}
    /\ mainPc' = "failed"
    /\ UNCHANGED <<mainExc, results, exitCode, sessVars>>
    /\ UNCHANGED <<outputWritten, secretsRead>>
    /\ mainFrame

\* ------------------------------------------------------------ specification
\* What main can find at csv_path.
Inputs == {"ok", "no_file", "unreadable", "missing_columns"}

\* The service ids of the rows: all different, or all the same.
ServiceIdTables == {[i \in Rows |-> i], [i \in Rows |-> 1]}

\* The state in which a run starts, given what the earlier runs left behind
\* (auth.json, the portal's records).
RunStart(file, records) ==
    /\ authFile = file
    /\ portal = records
    /\ sem = 0
    /\ mainPc = "init"
    /\ mainExc = NoExc
    /\ results = <<>>
    /\ exitCode = -1
    /\ playwright = "none"
    /\ browser = "none"
    /\ context = "none"
    /\ pc = [i \in Rows |-> "idle"]
    /\ page = [i \in Rows |-> "none"]
    /\ retries = [i \in Rows |-> 0]
    /\ last_exception = [i \in Rows |-> NoExc]
    /\ attempts = [i \in Rows |-> 0]
    /\ delays = [i \in Rows |-> <<>>]
    /\ exhausted = [i \in Rows |-> FALSE]
    /\ result = [i \in Rows |-> NoResult]
    /\ exc = [i \in Rows |-> NoExc]
    /\ clicks = [i \in Rows |-> 0]
    /\ outputWritten = FALSE
    /\ secretsRead = FALSE

\* Any command line, any input file, any state of the disk and the portal.
InitAny ==
    /\ n \in 0..NumRows
    /\ concurrency \in -1..MaxConc
    /\ input \in Inputs
    /\ service_id \in ServiceIdTables
    /\ \E file \in BOOLEAN :
       \E records \in SUBSET {service_id[i] : i \in 1..n} : RunStart(file, records)

\* Runs with concurrency >= 1 over rows of different service ids.
Init == InitAny /\ concurrency >= 1 /\ service_id = [i \in Rows |-> i]

\* The program is run again with the same command line: auth.json and the
\* portal's records persist, everything else starts afresh.
NewRun ==
    /\ mainPc \in {"done", "failed", "rejected"}
    /\ sem' = 0
    /\ mainPc' = "init"
    /\ mainExc' = NoExc
    /\ results' = <<>>
    /\ exitCode' = -1
    /\ playwright' = "none"
    /\ browser' = "none"
    /\ context' = "none"
    /\ pc' = [i \in Rows |-> "idle"]
    /\ page' = [i \in Rows |-> "none"]
    /\ retries' = [i \in Rows |-> 0]
    /\ last_exception' = [i \in Rows |-> NoExc]
    /\ attempts' = [i \in Rows |-> 0]
    /\ delays' = [i \in Rows |-> <<>>]
    /\ exhausted' = [i \in Rows |-> FALSE]
    /\ result' = [i \in Rows |-> NoResult]
    /\ exc' = [i \in Rows |-> NoExc]
    /\ clicks' = [i \in Rows |-> 0]
    /\ outputWritten' = FALSE
    /\ secretsRead' = FALSE
    /\ UNCHANGED <<inVars, authFile, portal>>

Next ==
    \/ Startup \/ NewRun
    \/ StartDriver \/ LaunchBrowser \/ NewContext \/ Login \/ Dispatch
    \/ GatherReturn \/ (\E i \in Rows : GatherRaise(i))
    \/ ExitContext \/ ExitBrowser \/ ExitDriver \/ Report \/ CancelAll \/ Finish
    \/ (\E i \in Rows : RowStep(i))

Spec == Init /\ [][Next]_vars

\* Runs of at most one row: the retry policy of a single row.
InitOneRow == Init /\ n <= 1
SpecOneRow == InitOneRow /\ [][Next]_vars

\* Runs of at most one row under any --concurrency value, 0 and negative
\* values included (argparse type=int accepts them).
InitAnyConc == InitAny /\ n <= 1 /\ service_id = [i \in Rows |-> i]
SpecAnyConc == InitAnyConc /\ [][Next]_vars

\* Runs whose rows all carry the same service id, of which the portal has no
\* record when the first run starts, with concurrency >= 2.
InitSameId ==
    /\ InitAny
    /\ n # 1
    /\ concurrency >= 2
    /\ service_id = [i \in Rows |-> 1]
    /\ portal = {}
SpecSameId == InitSameId /\ [][Next]_vars

\* ------------------------------------------------------------------ claims
Statuses == {"OK", "SKIP", "ERROR"}
RunEnded == mainPc \in {"done", "failed"}
Dispatched == n >= 1 /\ \A i \in 1..n : pc[i] # "idle"
RowFailed(i) == pc[i] = "done" /\ (exc[i] # NoExc \/ result[i].status = "ERROR")
BackoffSchedule == <<2000, 4000, 8000>>

\* C1: whatever the driver does, upload_row returns a RowOutcome with status
\* OK, SKIP or ERROR and lets no exception propagate to its caller.
C1_NeverThrows ==
    \A i \in 1..n :
        (pc[i] = "done" /\ exc[i] # CancelledExc)
            => (exc[i] = NoExc /\ result[i].status \in Statuses)

\* C2: when one row's workflow has failed, every other dispatched row still
\* runs on an open session, is not cancelled, and the run ends with one
\* outcome per row.
C2_FailureIsolation ==
    \A i \in 1..n : \A j \in 1..n :
        (i # j /\ RowFailed(i))
            => /\ (pc[j] # "done" => context = "open")
               /\ exc[j] # CancelledExc
               /\ (RunEnded => Len(results) = n)

\* C3: the number of rows admitted through the semaphore and not yet
\* returned (rows in backoff included) never exceeds the concurrency.
C3_GateBound == Cardinality({i \in Rows : InProgress(i)}) <= concurrency

C3_Witness ==
    /\ Cardinality({i \in Rows : InProgress(i)}) = concurrency
    /\ \E i \in Rows : pc[i] = "backoff"
    /\ \E j \in Rows : pc[j] = "pending"

\* C4: when a run that dispatched its rows has ended, the result sequence
\* holds one outcome per row, the one at position i produced by row i.
C4_OrderedResults ==
    (RunEnded /\ Dispatched)
        => /\ Len(results) = n
           /\ \A i \in 1..n : results[i] = result[i] /\ result[i].status \in Statuses

\* C5: the context is never closed while a dispatched row task has not
\* completed, and it is closed when the run has completed.
C5_ReleaseAfterTasks ==
    /\ context = "closed" => \A i \in 1..n : pc[i] = "done"
    /\ mainPc = "done" => context = "closed"

\* C6: once the browser is launched and the context made, every way the run
\* ends has closed the context and the browser and stopped the driver.
C6_ReleaseOnAllPaths ==
    (RunEnded /\ context # "none")
        => (context = "closed" /\ browser = "closed" /\ playwright = "stopped")

\* C7: at most MAX_RETRIES + 1 attempts per row; a row whose attempts all
\* failed retryably made exactly MAX_RETRIES + 1 of them, sleeps no more
\* after the last one, and ends with an ERROR outcome carrying the last error
\* (the value upload_row is about to return when it awaits page.close()).
C7_RetryExhaustion ==
    \A i \in 1..n :
        /\ attempts[i] <= MAX_RETRIES + 1
        /\ exhausted[i] =>
            /\ attempts[i] = MAX_RETRIES + 1
            /\ Len(delays[i]) = MAX_RETRIES
            /\ pc[i] # "backoff"
            /\ (pc[i] = "close" /\ exc[i] # CancelledExc)
                 => result[i] = RowOutcome("ERROR", "None", ErrorMsg(last_exception[i]))

\* C8: the wait before retry number k is 2^k * 1000 ms: 2000, 4000, 8000.
C8_BackoffDelays ==
    \A i \in 1..n :
        /\ Len(delays[i]) <= MAX_RETRIES
        /\ \A k \in 1..Len(delays[i]) : delays[i][k] = BackoffSchedule[k]
        /\ pc[i] = "backoff" => (Len(delays[i]) = retries[i] /\ attempts[i] = retries[i])

C8_Witness == \E i \in 1..n : pc[i] = "backoff" /\ retries[i] = MAX_RETRIES

\* C9 as stated: a row that exhausts its retries waited 1000, 2000 and
\* 4000 ms between consecutive attempts.
C9_Original == \A i \in 1..n : exhausted[i] => delays[i] = <<1000, 2000, 4000>>

\* C9 as amended: a row that exhausts its retries waited 2000, 4000 and
\* 8000 ms between consecutive attempts.
C9_Amended == \A i \in 1..n : exhausted[i] => delays[i] = BackoffSchedule

C9_Witness == \E i \in 1..n : exhausted[i] /\ pc[i] = "close" /\ attempts[i] = MAX_RETRIES + 1

\* C10: after a terminal failure (no timeout, no 429, no rate-limit signal)
\* the row makes no further attempt and no backoff wait, and its outcome is
\* ERROR carrying that error.
C10_TerminalNotRetried ==
    \A i \in 1..n :
        (last_exception[i] # NoExc /\ ~IsRetryable(last_exception[i]))
            => /\ pc[i] = "close"
               /\ exc[i] # CancelledExc
                    => result[i] = RowOutcome("ERROR", "None", ErrorMsg(last_exception[i]))

\* C11: when the duplicate check of a row's first attempt finds the row's
\* service id in the portal, the workflow returns SKIP at once: no retry is
\* counted and no submission step (fill, attach, click) is entered.
C11_DuplicateSkipped ==
    [][\A i \in 1..n :
        (/\ pc[i] = "count" /\ attempts[i] = 1 /\ service_id[i] \in portal
         /\ pc'[i] # "count"
         /\ last_exception'[i] \notin DriverErrors
         /\ exc'[i] # CancelledExc)
            => /\ pc'[i] = "close"
               /\ result'[i].status = "SKIP"
               /\ result'[i].portal_id \in {"existing", "unknown"}
               /\ retries'[i] = 0
               /\ clicks'[i] = 0]_vars

\* C13: a startup failure gives exit code 1 with no session, no row task and
\* no output table; a run that dispatched its rows, or had none, ends with
\* exit code 2 exactly when some outcome is ERROR, and 0 otherwise.
C13_ExitCode ==
    /\ (input # "ok" /\ mainPc # "init")
         => /\ mainPc = "rejected"
            /\ exitCode = 1
            /\ playwright = "none"
            /\ \A i \in Rows : pc[i] = "idle"
            /\ ~outputWritten
    /\ (input = "ok" /\ RunEnded /\ (Dispatched \/ mainPc = "done"))
         => /\ exitCode \in {0, 2}
            /\ exitCode = 2 <=> \E k \in 1..Len(results) : results[k].status = "ERROR"
            /\ Len(results) = n

\* C14: a run started with concurrency <= 0 is rejected before the driver is
\* started and before any row task exists; no row task ever waits on a
\* semaphore that has no slot to give.
C14_ConcurrencyValidated ==
    concurrency <= 0
        => /\ playwright = "none"
           /\ \A i \in Rows : pc[i] = "idle"
           /\ mainPc \in {"init", "rejected", "raised", "shutdown", "failed"}

\* C15: acquisition runs the login workflow, and reads the secrets, exactly
\* when auth.json does not exist; auth.json is written only by a login whose
\* confirmation was observed, and is never removed; so an acquired session
\* always leaves auth.json behind for the later runs.
C15_CredentialReuse ==
    /\ []((mainPc \in {"login", "dispatch", "gather"} => context = "open")
          /\ (mainPc = "login" => ~authFile /\ ~secretsRead)
          /\ (mainPc \in {"dispatch", "gather"} => authFile)
          /\ (secretsRead => mainPc \notin {"init", "start", "launch", "new_context", "login"}))
    /\ [][/\ (mainPc = "new_context" /\ context' = "open")
                => (mainPc' = "login" <=> ~authFile)
          /\ (mainPc = "new_context" /\ context' = "open" /\ authFile)
                => (mainPc' = "dispatch" /\ ~secretsRead')
          /\ (secretsRead' /\ ~secretsRead) => (mainPc = "login" /\ ~authFile)
          /\ (mainPc = "login" /\ mainPc' # "login") => secretsRead'
          /\ (authFile' # authFile)
                => (~authFile /\ authFile' /\ mainPc = "login" /\ mainPc' = "dispatch")
          /\ (mainPc = "login" /\ mainPc' = "dispatch") => authFile']_vars

C15_Witness == mainPc = "dispatch" /\ context = "open" /\ authFile /\ ~secretsRead

\* C16 as stated: a retry never repeats the navigation or the duplicate check.
C16_Original == \A i \in 1..n : attempts[i] >= 2 => pc[i] \notin {"goto", "count"}

\* C16 as amended: every attempt, retries included, starts at the navigation
\* and repeats the duplicate check; the fill step is entered only from a
\* duplicate check that found no record of the row's service id.
C16_Amended ==
    [][\A i \in 1..n :
        /\ attempts'[i] > attempts[i] => (pc'[i] = "goto" /\ attempts'[i] = attempts[i] + 1)
        /\ (pc'[i] = "count" /\ pc[i] # "count") => pc[i] = "goto"
        /\ (pc'[i] = "fill" /\ pc[i] # "fill")
              => (pc[i] = "count" /\ service_id[i] \notin portal /\ attempts'[i] = attempts[i])]_vars

C16_Witness == \E i \in 1..n : attempts[i] >= 2 /\ pc[i] = "fill" /\ clicks[i] >= 1

\* C17 as stated: the submit button is clicked at most once per row.
C17_Original == \A i \in 1..n : clicks[i] <= 1

\* C17 as amended: the submit button is clicked at most once per attempt,
\* hence at most MAX_RETRIES + 1 times per row.
C17_Amended ==
    \A i \in 1..n :
        /\ clicks[i] <= MAX_RETRIES + 1
        /\ clicks[i] <= attempts[i]
        /\ pc[i] \in {"goto", "count", "fill", "click"} => clicks[i] < attempts[i]

C17_Witness ==
    \E i \in 1..n : clicks[i] = MAX_RETRIES + 1 /\ last_exception[i] = TimeoutExc

\* C18: a row's page is closed by the time its task has ended; the open row
\* pages never outnumber the concurrency; no row page is open once the
\* release of the session has begun.
C18_PageLifecycle ==
    /\ \A i \in 1..n : pc[i] = "done" => page[i] # "open"
    /\ Cardinality({i \in Rows : page[i] = "open"}) <= concurrency
    /\ mainPc \in {"exit_context", "exit_browser", "exit_driver", "report",
                   "done", "raised", "shutdown", "failed"}
         => \A i \in 1..n : page[i] # "open"

\* C19: of two rows carrying the same service id, unknown to the portal when
\* the run starts, at most one clicks the submit button, and once the run
\* has ended the other one has the outcome SKIP.
C19_IdempotencyKey ==
    \A i \in 1..n : \A j \in 1..n :
        (i # j /\ service_id[i] = service_id[j])
            => /\ ~(clicks[i] >= 1 /\ clicks[j] >= 1)
               /\ (RunEnded /\ Dispatched /\ service_id[i] \in portal)
                    => (result[i].status = "SKIP" \/ result[j].status = "SKIP")

\* C20: a run with concurrency >= 1 that acquired its session and dispatched
\* its rows ends normally, every row having been admitted and having reached
\* an outcome, every slot of the semaphore given back and the session
\* released.
C20_Termination ==
    (RunEnded /\ Dispatched)
        => /\ mainPc = "done"
           /\ \A i \in 1..n : /\ pc[i] = "done"
                              /\ exc[i] # CancelledExc
                              /\ result[i].status \in Statuses
           /\ sem = concurrency
           /\ context = "closed"

====
